---- MODULE Spec2Model ----
(***************************************************************************)
(* Model of src/main.py, a Streamlit script that is executed top to bottom *)
(* on every user interaction.  One behaviour of the main specification is  *)
(* the life of one server process with one browser session: a sequence of  *)
(* script runs, separated by widget changes, reruns and changes of the CSV *)
(* files on disk.                                                          *)
(*                                                                         *)
(* A table (pandas DataFrame) is a record [cols, rows]: the set of column  *)
(* names and the sequence of rows, each row a record over the columns.     *)
(* Column values follow the data model: year and gross are integers, the   *)
(* species scores are integers, the other columns are strings.             *)
(***************************************************************************)
EXTENDS Integers, Sequences, FiniteSets, TLC

VARIABLES
    movie_file,       \* content of data/data/movies_genres_summary4.csv
    species_file,     \* content of data/data/species_strategies2.csv
    movie_cache,      \* st.cache entry of load_movie_data: <<>> or <<table>>
    species_cache,    \* st.cache entry of load_species_data
    movie_reads,      \* number of pd.read_csv calls on the movie file
    species_reads,    \* number of pd.read_csv calls on the species file
    genres_widget,    \* session state of the "Genres" multiselect: <<>> or <<value>>
    years_widget,     \* session state of the "Years" slider
    species_widget,   \* session state of the "Species" multiselect
    pc,               \* position of the running script
    bound,            \* names bound in the script's global namespace in this run
    movie_df, species_df,
    genres, years, df_filtered, df_reshaped, df_chart,
    species, species_filtered, regression_df,
    out,              \* elements rendered in this run, in order
    raised,           \* the exception that ended this run, "" when none
    vc                \* frame of one isolated call of validate_columns

envVars    == <<movie_file, species_file, movie_cache, species_cache,
                movie_reads, species_reads>>
widgetVars == <<genres_widget, years_widget, species_widget>>
movieVars  == <<genres, years, df_filtered, df_reshaped, df_chart>>
speciesVars == <<species, species_filtered, regression_df>>
vars == <<envVars, widgetVars, pc, bound, movie_df, species_df, movieVars,
          speciesVars, out, raised, vc>>

(***************************************************************************)
(* Bounds of the model.                                                    *)
(***************************************************************************)
MaxFileRows == 2      \* rows of a CSV file in the process model
MaxRows == 3          \* rows of the movie table in the filter/reshape model
MaxRequired == 2      \* length of a required-columns list in the validator model

(***************************************************************************)
(* Helpers on sequences and sets.                                          *)
(***************************************************************************)
Range(s) == {s[i] : i \in DOMAIN s}

SeqsUpTo(S, n) == UNION {[1..k -> S] : k \in 0..n}

Min2(a, b) == IF a <= b THEN a ELSE b
Max2(a, b) == IF a >= b THEN a ELSE b

\* ', '.join(names)
RECURSIVE Join(_)
Join(names) ==
    IF names = <<>> THEN ""
    ELSE IF Len(names) = 1 THEN names[1]
    ELSE names[1] \o ", " \o Join(Tail(names))

\* Series.unique(): the distinct values in order of first appearance.
RECURSIVE Unique(_)
Unique(s) ==
    IF s = <<>> THEN <<>>
    ELSE LET u == Unique(SubSeq(s, 1, Len(s) - 1))
         IN  IF s[Len(s)] \in Range(u) THEN u ELSE Append(u, s[Len(s)])

\* s[:n]
Head_n(s, n) == SubSeq(s, 1, Min2(n, Len(s)))

Column(df, c) == [i \in DOMAIN df.rows |-> df.rows[i][c]]

\* pd.DataFrame()
EmptyDataFrame == [cols |-> {}, rows |-> <<>>]

IsReadError(f) == "error" \in DOMAIN f

(***************************************************************************)
(* The script's literals.                                                  *)
(***************************************************************************)
movie_required_columns ==
    <<"year", "ActorId", "Name", "MovieId", "Title", "genre", "Country", "gross">>

species_required_columns ==
    <<"species", "protection", "defense", "attack", "feeding", "satisfaction",
      "sexual_reproduction">>

all_genres ==
    <<"Romance", "Film-Noir", "Music", "Comedy", "Biography", "Sport", "Drama",
      "Animation", "Sci-Fi", "Western", "War", "Adventure", "Musical", "Action",
      "Horror", "Thriller", "Fantasy", "Mystery", "Crime", "Family", "History">>

default_genres == <<"Action", "Adventure", "Biography", "Comedy", "Drama", "Horror">>

SliderMin == 1986
SliderMax == 2016
DefaultLo == 2000
DefaultHi == 2024
DefaultSpeciesCount == 5

MovieElseMessage == "Movie data not loaded correctly or missing necessary columns."
SpeciesElseMessage == "Species data not loaded correctly or missing necessary columns."

\* A rendered element.
Element(sec, kind, body) == [sec |-> sec, kind |-> kind, body |-> body]

(***************************************************************************)
(* validate_columns (lines 41-46).  The result is the returned boolean and *)
(* the texts handed to st.error, in order.                                 *)
(***************************************************************************)
\* [col for col in required_columns if col in df.columns]: the test inverted
missing_columns_inverted(df, required_columns) ==
    SelectSeq(required_columns, LAMBDA col: col \in df.cols)

\* [col for col in required_columns if col not in df.columns]
missing_columns(df, required_columns) ==
    SelectSeq(required_columns, LAMBDA col: col \notin df.cols)

validate_columns(df, required_columns) ==
    LET missing == missing_columns(df, required_columns)
    IN  IF missing # <<>>
        THEN [ret |-> FALSE,
              msgs |-> <<"DataFrame is missing required columns: " \o Join(missing)>>]
        ELSE [ret |-> TRUE, msgs |-> <<>>]

(***************************************************************************)
(* The widgets.  A widget returns its session value once the user has set  *)
(* it and its default before that.  st.slider widens its bounds to take in *)
(* a default value that lies outside them.                                 *)
(***************************************************************************)
multiselect(default, state) == IF state = <<>> THEN default ELSE state[1]

\* st.slider("Years", 1986, 2016, (2000, 2024)): the values the user can reach
SliderLow == Min2(DefaultLo, SliderMin)
SliderHigh == Max2(DefaultHi, SliderMax)

slider(state) == IF state = <<>> THEN <<DefaultLo, DefaultHi>> ELSE state[1]

(***************************************************************************)
(* The movie filter (line 67): two boolean masks, their conjunction, and   *)
(* boolean indexing.                                                       *)
(***************************************************************************)
isin(series, values) == [i \in DOMAIN series |-> series[i] \in Range(values)]

\* Series.between with an exclusive right end
between_exclusive(series, left, right) ==
    [i \in DOMAIN series |-> left <= series[i] /\ series[i] < right]

\* Series.between(left, right), inclusive="both"
between(series, left, right) ==
    [i \in DOMAIN series |-> left <= series[i] /\ series[i] <= right]

MaskAnd(a, b) == [i \in DOMAIN a |-> a[i] /\ b[i]]

\* df[mask]
BoolIndex(df, mask) ==
    LET keep == SelectSeq([i \in DOMAIN df.rows |-> i], LAMBDA i: mask[i])
    IN  [cols |-> df.cols, rows |-> [k \in DOMAIN keep |-> df.rows[keep[k]]]]

FilterMovies(df, sel, rng) ==
    BoolIndex(df, MaskAnd(isin(Column(df, "genre"), sel),
                          between(Column(df, "year"), rng[1], rng[2])))

(***************************************************************************)
(* pivot_table / sort_values / melt (lines 76-84).                         *)
(***************************************************************************)
\* The order of the genre names as strings.
SortedNames ==
    <<"Action", "Adventure", "Animation", "Biography", "Comedy", "Crime", "Drama",
      "Family", "Fantasy", "Film-Noir", "History", "Horror", "Music", "Musical",
      "Mystery", "Romance", "Sci-Fi", "Sport", "Thriller", "War", "Western">>

NameRank(g) == CHOOSE i \in DOMAIN SortedNames : SortedNames[i] = g

RECURSIVE SetToSeq(_)
SetToSeq(S) ==
    IF S = {} THEN <<>>
    ELSE LET x == CHOOSE x \in S : TRUE IN <<x>> \o SetToSeq(S \ {x})

\* aggfunc that keeps the last value of a group instead of adding it
GroupSum_last(rows) ==
    [k \in {<<rows[i].year, rows[i].genre>> : i \in DOMAIN rows} |->
        LET last == CHOOSE i \in DOMAIN rows :
                        /\ <<rows[i].year, rows[i].genre>> = k
                        /\ \A j \in DOMAIN rows :
                              <<rows[j].year, rows[j].genre>> = k => j <= i
        IN  rows[last].gross]

\* groupby(["year", "genre"]).agg("sum") on gross: one pass over the rows
RECURSIVE GroupSum(_)
GroupSum(rows) ==
    IF rows = <<>> THEN <<>>
    ELSE LET acc == GroupSum(SubSeq(rows, 1, Len(rows) - 1))
             r == rows[Len(rows)]
             k == <<r.year, r.genre>>
         IN  IF k \in DOMAIN acc
             THEN [acc EXCEPT ![k] = @ + r.gross]
             ELSE [x \in DOMAIN acc \cup {k} |-> IF x = k THEN r.gross ELSE acc[x]]

\* pivot_table(index="year", columns="genre", values="gross", aggfunc="sum",
\*             fill_value=0): the index ascending, the columns in string order
pivot_table(df) ==
    LET agg == GroupSum(df.rows)
        ys == {k[1] : k \in DOMAIN agg}
        gs == {k[2] : k \in DOMAIN agg}
    IN  [index |-> SortSeq(SetToSeq(ys), LAMBDA a, b: a < b),
         columns |-> SortSeq(SetToSeq(gs), LAMBDA a, b: NameRank(a) < NameRank(b)),
         cells |-> [k \in ys \X gs |-> IF k \in DOMAIN agg THEN agg[k] ELSE 0]]

\* sort_values(by="year", ascending=False)
sort_values(t) == [t EXCEPT !.index = SortSeq(t.index, LAMBDA a, b: a > b)]

\* pd.melt(t.reset_index(), id_vars="year", var_name="genre", value_name="gross"):
\* column by column, each column down the index
melt(t) ==
    LET ni == Len(t.index)
    IN  IF ni = 0 THEN <<>>
        ELSE [k \in 1..(ni * Len(t.columns)) |->
                LET y == t.index[((k - 1) % ni) + 1]
                    g == t.columns[((k - 1) \div ni) + 1]
                IN  [year |-> y, genre |-> g, gross |-> t.cells[<<y, g>>]]]

\* df[["year", "Title", "genre", "gross"]]
Project(df, cs) == [cols |-> cs, rows |-> [i \in DOMAIN df.rows |-> [c \in cs |-> df.rows[i][c]]]]

(***************************************************************************)
(* The inputs the model draws from.                                        *)
(***************************************************************************)
MovieCols == Range(movie_required_columns)
SpeciesCols == Range(species_required_columns)

MovieRow(y, g, v) ==
    [year |-> y, ActorId |-> "a1", Name |-> "n1", MovieId |-> "m1", Title |-> "t1",
     genre |-> g, Country |-> "c1", gross |-> v]

SpeciesRow(sp, f, s) ==
    [species |-> sp, protection |-> 1, defense |-> 1, attack |-> 1, feeding |-> f,
     satisfaction |-> s, sexual_reproduction |-> 1]

\* A table with the column set cs and the rows rs cut down to those columns.
Table(cs, rs) == [cols |-> cs, rows |-> [i \in DOMAIN rs |-> [c \in cs |-> rs[i][c]]]]

ReadError == [error |-> "No such file or directory"]

\* The rows a CSV file holds are the first rows of these samples.
MovieSample ==
    <<MovieRow(DefaultHi, "Action", 3), MovieRow(DefaultLo, "Western", 4),
      MovieRow(SliderMax, "Action", 5)>>
SpeciesSample ==
    <<SpeciesRow("wolf", 1, 2), SpeciesRow("deer", 2, 4), SpeciesRow("wolf", 3, 6)>>

MovieFiles ==
    {ReadError, Table(MovieCols \ {"gross"}, Head_n(MovieSample, 1))} \cup
    {Table(MovieCols, Head_n(MovieSample, k)) : k \in 0..MaxFileRows}

SpeciesFiles ==
    {ReadError, Table(SpeciesCols \ {"satisfaction"}, Head_n(SpeciesSample, 1))} \cup
    {Table(SpeciesCols, Head_n(SpeciesSample, k)) : k \in 0..MaxFileRows}

\* What the user can pick in the widgets.
GenreChoices == {<<>>, <<"Action">>, <<"Western", "Action">>}
YearTicks == {SliderLow, SliderMax, SliderHigh}
YearChoices == {r \in YearTicks \X YearTicks : r[1] <= r[2]}
SubLists(options) ==
    {SelectSeq(options, LAMBDA x: x \in S) : S \in SUBSET Range(options)}

NoCall == [df |-> EmptyDataFrame, required_columns |-> <<>>, at |-> "none",
           ret |-> TRUE, msgs |-> <<>>]

NoPivot == [index |-> <<>>, columns |-> <<>>, cells |-> <<>>]

(***************************************************************************)
(* The loaders (lines 16-38).                                              *)
(***************************************************************************)
\* st.cache with the lookup left out: the function body runs on every call
CacheHit_never(cache) == FALSE

\* st.cache: the function takes no argument, so one entry serves every call
CacheHit(cache) == cache # <<>>

\* except Exception: return pd.DataFrame(), with no st.error
load_data_silent(file, what) ==
    IF IsReadError(file)
    THEN [df |-> EmptyDataFrame, msgs |-> <<>>]
    ELSE [df |-> file, msgs |-> <<>>]

\* The body of load_movie_data / load_species_data.
load_data(file, what) ==
    IF IsReadError(file)
    THEN [df |-> EmptyDataFrame,
          msgs |-> <<"Error loading " \o what \o " data: " \o file.error>>]
    ELSE [df |-> file, msgs |-> <<>>]

Errors(sec, msgs) == [i \in DOMAIN msgs |-> Element(sec, "error", msgs[i])]

PageHeader ==
    /\ pc = "start"
    /\ out' = out \o <<Element("page", "title", "Movies and Animal Data Visualization"),
                       Element("page", "write", "description")>>
    /\ pc' = "load_movie"
    /\ UNCHANGED <<envVars, widgetVars, bound, movie_df, species_df, movieVars,
                   speciesVars, raised, vc>>

load_movie_data ==
    /\ pc = "load_movie"
    /\ IF CacheHit(movie_cache)
       THEN /\ movie_df' = movie_cache[1]
            /\ UNCHANGED <<movie_cache, movie_reads, out>>
       ELSE LET r == load_data(movie_file, "movie")
            IN  /\ movie_reads' = movie_reads + 1
                /\ movie_cache' = <<r.df>>
                /\ movie_df' = r.df
                /\ out' = out \o Errors("load_movie", r.msgs)
    /\ bound' = bound \cup {"movie_df"}
    /\ pc' = "load_species"
    /\ UNCHANGED <<movie_file, species_file, species_cache, species_reads, widgetVars,
                   species_df, movieVars, speciesVars, raised, vc>>

load_species_data ==
    /\ pc = "load_species"
    /\ IF CacheHit(species_cache)
       THEN /\ species_df' = species_cache[1]
            /\ UNCHANGED <<species_cache, species_reads, out>>
       ELSE LET r == load_data(species_file, "species")
            IN  /\ species_reads' = species_reads + 1
                /\ species_cache' = <<r.df>>
                /\ species_df' = r.df
                /\ out' = out \o Errors("load_species", r.msgs)
    /\ bound' = bound \cup {"species_df"}
    /\ pc' = "validate_movie"
    /\ UNCHANGED <<movie_file, species_file, movie_cache, movie_reads, widgetVars,
                   movie_df, movieVars, speciesVars, raised, vc>>

(***************************************************************************)
(* The movie section (lines 48-97).                                        *)
(***************************************************************************)
\* an else branch that ends the run
AfterMovieElse_stop == "done"

\* After the else branch at line 97 the script goes on at line 99.
AfterMovieElse == "validate_species"

ValidateMovie ==
    /\ pc = "validate_movie"
    /\ LET v == validate_columns(movie_df, movie_required_columns)
       IN  IF v.ret
           THEN /\ out' = out \o Errors("movie", v.msgs)
                /\ pc' = "movie_widgets"
           ELSE /\ out' = out \o Errors("movie", v.msgs)
                           \o <<Element("movie", "error", MovieElseMessage)>>
                /\ pc' = AfterMovieElse
    /\ bound' = bound \cup {"validate_columns", "movie_required_columns"}
    /\ UNCHANGED <<envVars, widgetVars, movie_df, species_df, movieVars, speciesVars,
                   raised, vc>>

MovieWidgets ==
    /\ pc = "movie_widgets"
    /\ genres' = multiselect(default_genres, genres_widget)
    /\ years' = slider(years_widget)
    /\ out' = out \o <<Element("movie", "multiselect", "Genres"),
                       Element("movie", "slider", "Years")>>
    /\ bound' = bound \cup {"all_genres", "genres", "years"}
    /\ pc' = "movie_filter"
    /\ UNCHANGED <<envVars, widgetVars, movie_df, species_df, df_filtered, df_reshaped,
                   df_chart, speciesVars, raised, vc>>

MovieFilter ==
    /\ pc = "movie_filter"
    /\ df_filtered' = FilterMovies(movie_df, genres, years)
    /\ out' = Append(out, Element("movie", "dataframe",
                 Project(df_filtered', {"year", "Title", "genre", "gross"})))
    /\ bound' = bound \cup {"df_filtered"}
    /\ pc' = "movie_reshape"
    /\ UNCHANGED <<envVars, widgetVars, movie_df, species_df, genres, years, df_reshaped,
                   df_chart, speciesVars, raised, vc>>

MovieReshape ==
    /\ pc = "movie_reshape"
    /\ df_reshaped' = sort_values(pivot_table(df_filtered))
    /\ bound' = bound \cup {"df_reshaped"}
    /\ pc' = "movie_chart"
    /\ UNCHANGED <<envVars, widgetVars, movie_df, species_df, genres, years, df_filtered,
                   df_chart, speciesVars, out, raised, vc>>

MovieChart ==
    /\ pc = "movie_chart"
    /\ df_chart' = melt(df_reshaped)
    /\ out' = Append(out, Element("movie", "line_chart", df_chart'))
    /\ bound' = bound \cup {"df_chart", "chart"}
    /\ pc' = "validate_species"
    /\ UNCHANGED <<envVars, widgetVars, movie_df, species_df, genres, years, df_filtered,
                   df_reshaped, speciesVars, raised, vc>>

(***************************************************************************)
(* The species section (lines 99-177).                                     *)
(***************************************************************************)
ValidateSpecies ==
    /\ pc = "validate_species"
    /\ LET v == validate_columns(species_df, species_required_columns)
       IN  IF v.ret
           THEN /\ out' = out \o Errors("species", v.msgs)
                /\ pc' = "species_filter"
           ELSE /\ out' = out \o Errors("species", v.msgs)
                           \o <<Element("species", "error", SpeciesElseMessage)>>
                /\ pc' = "done"
    /\ bound' = bound \cup {"species_required_columns"}
    /\ UNCHANGED <<envVars, widgetVars, movie_df, species_df, movieVars, speciesVars,
                   raised, vc>>

\* species_df['species'].unique()
SpeciesOptions(df) == Unique(Column(df, "species"))

SpeciesFilter ==
    /\ pc = "species_filter"
    /\ species' = multiselect(Head_n(SpeciesOptions(species_df), DefaultSpeciesCount),
                              species_widget)
    /\ species_filtered' = BoolIndex(species_df,
                                     isin(Column(species_df, "species"), species'))
    /\ out' = out \o <<Element("species", "multiselect", "Species"),
                       Element("species", "dataframe", species_filtered')>>
    /\ bound' = bound \cup {"species", "species_filtered"}
    /\ pc' = "species_charts"
    /\ UNCHANGED <<envVars, widgetVars, movie_df, species_df, movieVars, regression_df,
                   raised, vc>>

\* Line 126 reads the global name `variables`.  The assignment that would bind
\* it (lines 119-123) is commented out, so the read raises NameError and the
\* run ends there; lines 127-175 are reached by no run.
SpeciesCharts ==
    /\ pc = "species_charts"
    /\ IF "variables" \in bound
       THEN /\ pc' = "species_bars"
            /\ UNCHANGED <<raised, out>>
       ELSE /\ pc' = "crashed"
            /\ raised' = "NameError: name 'variables' is not defined"
            /\ out' = Append(out, Element("species", "exception", raised'))
    /\ UNCHANGED <<envVars, widgetVars, bound, movie_df, species_df, movieVars,
                   speciesVars, vc>>

(***************************************************************************)
(* Between two runs: the user acts on a rendered widget or asks for a      *)
(* rerun, and the files on disk may change.                                *)
(***************************************************************************)
Idle == pc \in {"done", "crashed"}

Rendered(sec, kind) == \E i \in DOMAIN out : out[i].sec = sec /\ out[i].kind = kind

StartRun ==
    /\ pc' = "start"
    /\ bound' = {}
    /\ out' = <<>>
    /\ raised' = ""
    /\ movie_df' = EmptyDataFrame
    /\ species_df' = EmptyDataFrame
    /\ genres' = <<>>
    /\ years' = <<>>
    /\ df_filtered' = EmptyDataFrame
    /\ df_reshaped' = NoPivot
    /\ df_chart' = <<>>
    /\ species' = <<>>
    /\ species_filtered' = EmptyDataFrame
    /\ regression_df' = <<>>
    /\ UNCHANGED <<envVars, vc>>

Rerun ==
    /\ Idle
    /\ StartRun
    /\ UNCHANGED widgetVars

SelectGenres ==
    /\ Idle
    /\ Rendered("movie", "multiselect")
    /\ \E sel \in GenreChoices : genres_widget' = <<sel>>
    /\ StartRun
    /\ UNCHANGED <<years_widget, species_widget>>

MoveSlider ==
    /\ Idle
    /\ Rendered("movie", "slider")
    /\ \E rng \in YearChoices : years_widget' = <<rng>>
    /\ StartRun
    /\ UNCHANGED <<genres_widget, species_widget>>

SelectSpecies ==
    /\ Idle
    /\ Rendered("species", "multiselect")
    /\ \E sel \in SubLists(SpeciesOptions(species_df)) : species_widget' = <<sel>>
    /\ StartRun
    /\ UNCHANGED <<genres_widget, years_widget>>

ChangeMovieFile ==
    /\ Idle
    /\ \E f \in MovieFiles \ {movie_file} : movie_file' = f
    /\ UNCHANGED <<species_file, movie_cache, species_cache, movie_reads, species_reads,
                   widgetVars, pc, bound, movie_df, species_df, movieVars, speciesVars,
                   out, raised, vc>>

ChangeSpeciesFile ==
    /\ Idle
    /\ \E f \in SpeciesFiles \ {species_file} : species_file' = f
    /\ UNCHANGED <<movie_file, movie_cache, species_cache, movie_reads, species_reads,
                   widgetVars, pc, bound, movie_df, species_df, movieVars, speciesVars,
                   out, raised, vc>>

(***************************************************************************)
(* The process: a fresh server process and session start the first run.    *)
(***************************************************************************)
ScriptIdle ==
    /\ bound = {}
    /\ out = <<>>
    /\ raised = ""
    /\ movie_df = EmptyDataFrame
    /\ species_df = EmptyDataFrame
    /\ genres = <<>>
    /\ years = <<>>
    /\ df_filtered = EmptyDataFrame
    /\ df_reshaped = NoPivot
    /\ df_chart = <<>>
    /\ species = <<>>
    /\ species_filtered = EmptyDataFrame
    /\ regression_df = <<>>

Init ==
    /\ movie_file \in MovieFiles
    /\ species_file \in SpeciesFiles
    /\ movie_cache = <<>>
    /\ species_cache = <<>>
    /\ movie_reads = 0
    /\ species_reads = 0
    /\ genres_widget = <<>>
    /\ years_widget = <<>>
    /\ species_widget = <<>>
    /\ pc = "start"
    /\ ScriptIdle
    /\ vc = NoCall

Next ==
    \/ PageHeader
    \/ load_movie_data
    \/ load_species_data
    \/ ValidateMovie
    \/ MovieWidgets
    \/ MovieFilter
    \/ MovieReshape
    \/ MovieChart
    \/ ValidateSpecies
    \/ SpeciesFilter
    \/ SpeciesCharts
    \/ Rerun
    \/ SelectGenres
    \/ MoveSlider
    \/ SelectSpecies
    \/ ChangeMovieFile
    \/ ChangeSpeciesFile

Spec == Init /\ [][Next]_vars

(***************************************************************************)
(* The movie section alone, from a run that has loaded a movie table with  *)
(* all columns: every table of up to MaxRows rows, every widget state.     *)
(***************************************************************************)
FilterYears == {SliderMax, DefaultHi}
FilterGenres == {"Action", "Western"}
FilterGross == {3, 4}
FilterRows == {MovieRow(y, g, v) : y \in FilterYears, g \in FilterGenres, v \in FilterGross}
FilterTables == {Table(MovieCols, rs) : rs \in SeqsUpTo(FilterRows, MaxRows)}

InitFilter ==
    /\ movie_df \in FilterTables
    /\ movie_file = movie_df
    /\ movie_cache = <<movie_df>>
    /\ movie_reads = 1
    /\ species_file = ReadError
    /\ species_cache = <<EmptyDataFrame>>
    /\ species_reads = 1
    /\ species_df = EmptyDataFrame
    /\ genres_widget \in {<<>>} \cup {<<sel>> : sel \in GenreChoices}
    /\ years_widget \in {<<>>} \cup {<<rng>> : rng \in YearChoices}
    /\ species_widget = <<>>
    /\ pc = "validate_movie"
    /\ bound = {"movie_df", "species_df"}
    /\ out = <<Element("page", "title", "Movies and Animal Data Visualization"),
               Element("page", "write", "description")>>
             \o Errors("load_species", load_data(species_file, "species").msgs)
    /\ raised = ""
    /\ genres = <<>>
    /\ years = <<>>
    /\ df_filtered = EmptyDataFrame
    /\ df_reshaped = NoPivot
    /\ df_chart = <<>>
    /\ species = <<>>
    /\ species_filtered = EmptyDataFrame
    /\ regression_df = <<>>
    /\ vc = NoCall

NextFilter ==
    \/ ValidateMovie
    \/ MovieWidgets
    \/ MovieFilter
    \/ MovieReshape
    \/ MovieChart

SpecFilter == InitFilter /\ [][NextFilter]_vars

(***************************************************************************)
(* validate_columns alone: one call on every table over ValidateCols and   *)
(* every required list of up to MaxRequired names.                         *)
(***************************************************************************)
ValidateCols == {"year", "genre", "gross"}

InitValidate ==
    /\ \E cs \in SUBSET ValidateCols, n \in 0..1, req \in SeqsUpTo(ValidateCols, MaxRequired) :
          vc = [df |-> Table(cs, Head_n(MovieSample, n)), required_columns |-> req,
                at |-> "call", ret |-> TRUE, msgs |-> <<>>]
    /\ movie_file = ReadError
    /\ species_file = ReadError
    /\ movie_cache = <<>>
    /\ species_cache = <<>>
    /\ movie_reads = 0
    /\ species_reads = 0
    /\ genres_widget = <<>>
    /\ years_widget = <<>>
    /\ species_widget = <<>>
    /\ pc = "start"
    /\ ScriptIdle

validate_columns_call ==
    /\ vc.at = "call"
    /\ LET v == validate_columns(vc.df, vc.required_columns)
       IN  vc' = [vc EXCEPT !.at = "returned", !.ret = v.ret, !.msgs = v.msgs]
    /\ UNCHANGED <<envVars, widgetVars, pc, bound, movie_df, species_df, movieVars,
                   speciesVars, out, raised>>

NextValidate == validate_columns_call

SpecValidate == InitValidate /\ [][NextValidate]_vars

(***************************************************************************)
(* Properties.                                                             *)
(***************************************************************************)
Count(s, r) == Cardinality({i \in DOMAIN s : s[i] = r})

RECURSIVE SumOver(_, _)
SumOver(I, f) ==
    IF I = {} THEN 0
    ELSE LET i == CHOOSE i \in I : TRUE IN f[i] + SumOver(I \ {i}, f)

\* The total gross of the rows of one (year, genre) group, 0 for no row.
TotalGross(rows, y, g) ==
    SumOver({i \in DOMAIN rows : rows[i].year = y /\ rows[i].genre = g},
            [i \in DOMAIN rows |-> rows[i].gross])

InRangeAndSelected(r) ==
    /\ r.genre \in Range(genres)
    /\ years[1] <= r.year
    /\ r.year <= years[2]

\* C1: the filtered table holds exactly the rows of the movie table whose genre
\* is selected and whose year lies in [lo, hi], both ends included: every such
\* row is kept as often as it occurs, and no other row is kept.
C1_FilterExact ==
    "df_filtered" \in bound =>
        /\ years[1] <= years[2]
        /\ df_filtered.cols = movie_df.cols
        /\ \A r \in Range(df_filtered.rows) : r \in Range(movie_df.rows)
        /\ \A r \in Range(movie_df.rows) :
              Count(df_filtered.rows, r) =
                  IF InRangeAndSelected(r) THEN Count(movie_df.rows, r) ELSE 0

\* A row on the upper end of the range is kept while a row beyond it is dropped.
C1_Witness ==
    /\ "df_filtered" \in bound
    /\ \E r \in Range(df_filtered.rows) : r.year = years[2]
    /\ \E r \in Range(movie_df.rows) : r.year > years[2] /\ r.genre \in Range(genres)
    /\ \E r \in Range(movie_df.rows) : r.year = years[1] /\ r \in Range(df_filtered.rows)

\* C2: in the long-form chart table every (year, genre) pair occurs at most
\* once, every pair that has rows occurs, and the gross of a pair is the total
\* gross of the rows of that pair, whether summed over the filtered rows or
\* over the rows of the whole movie table.
C2_PivotMeltTotals ==
    "df_chart" \in bound =>
        /\ \A i, j \in DOMAIN df_chart :
              (df_chart[i].year = df_chart[j].year /\ df_chart[i].genre = df_chart[j].genre)
                  => i = j
        /\ \A i \in DOMAIN df_chart :
              /\ df_chart[i].gross =
                    TotalGross(df_filtered.rows, df_chart[i].year, df_chart[i].genre)
              /\ df_chart[i].gross =
                    TotalGross(movie_df.rows, df_chart[i].year, df_chart[i].genre)
        /\ \A r \in Range(df_filtered.rows) :
              \E i \in DOMAIN df_chart :
                  df_chart[i].year = r.year /\ df_chart[i].genre = r.genre

\* A pair with two rows is charted with their sum beside a pair filled with 0.
C2_Witness ==
    /\ "df_chart" \in bound
    /\ \E i \in DOMAIN df_chart :
          /\ Cardinality({k \in DOMAIN df_filtered.rows :
                            /\ df_filtered.rows[k].year = df_chart[i].year
                            /\ df_filtered.rows[k].genre = df_chart[i].genre}) = 2
          /\ df_chart[i].gross = 7
    /\ \E i \in DOMAIN df_chart : df_chart[i].gross = 0

\* The required names that are no column of the table, in the order required.
RECURSIVE Absent(_, _)
Absent(cols, required) ==
    IF required = <<>> THEN <<>>
    ELSE IF Head(required) \in cols THEN Absent(cols, Tail(required))
    ELSE <<Head(required)>> \o Absent(cols, Tail(required))

\* C5: a call of validate_columns returns True exactly when every required
\* name is a column of the table; when it returns False its one message names
\* the required columns that are absent and no other; the table is unchanged.
C5_ValidateColumns ==
    [][(vc.at = "call" /\ vc'.at = "returned") =>
          /\ vc'.df = vc.df
          /\ vc'.required_columns = vc.required_columns
          /\ vc'.ret = (Range(vc.required_columns) \subseteq vc.df.cols)
          /\ vc'.ret => vc'.msgs = <<>>
          /\ ~vc'.ret =>
                vc'.msgs = <<"DataFrame is missing required columns: "
                             \o Join(Absent(vc.df.cols, vc.required_columns))>>]_vars

\* A call that returned False for a list with a present and an absent name.
C5_Witness ==
    /\ vc.at = "returned"
    /\ ~vc.ret
    /\ \E c \in Range(vc.required_columns) : c \in vc.df.cols
    /\ \E c \in Range(vc.required_columns) : c \notin vc.df.cols
    /\ vc.msgs # <<>>

SectionOut(o, sec) == SelectSeq(o, LAMBDA e : e.sec = sec)

\* The section rendered something, and nothing but error messages.
OnlyErrors(o, sec) ==
    /\ SectionOut(o, sec) # <<>>
    /\ \A i \in DOMAIN o : o[i].sec = sec => o[i].kind = "error"

Lacks(df, required) == \E c \in Range(required) : c \notin df.cols

RunEnded == pc \in {"done", "crashed"}

\* C3: when the movie table or the species table lacks a required column, the
\* section of that table renders error messages only, its filter step is
\* skipped, and the run reaches its end with no exception raised.
C3_MissingColumnHandled ==
    RunEnded =>
        /\ Lacks(movie_df, movie_required_columns) =>
              /\ OnlyErrors(out, "movie")
              /\ "df_filtered" \notin bound
              /\ pc = "done" /\ raised = ""
        /\ Lacks(species_df, species_required_columns) =>
              /\ OnlyErrors(out, "species")
              /\ "species_filtered" \notin bound
              /\ pc = "done" /\ raised = ""

\* C4: a loader whose read fails reports the error, returns the empty table and
\* raises nothing; a section whose table is the empty table renders error
\* messages only and skips its filter.
C4_LoadFailure ==
    [][/\ (pc = "load_movie" /\ movie_cache = <<>> /\ IsReadError(movie_file)) =>
              /\ movie_df' = EmptyDataFrame
              /\ out' = Append(out, Element("load_movie", "error",
                                   "Error loading movie data: " \o movie_file.error))
              /\ raised' = ""
              /\ pc' = "load_species"
       /\ (pc = "load_species" /\ species_cache = <<>> /\ IsReadError(species_file)) =>
              /\ species_df' = EmptyDataFrame
              /\ out' = Append(out, Element("load_species", "error",
                                   "Error loading species data: " \o species_file.error))
              /\ raised' = ""
              /\ pc' = "validate_movie"
       /\ (RunEnded /\ movie_df = EmptyDataFrame) =>
              OnlyErrors(out, "movie") /\ "df_filtered" \notin bound
       /\ (RunEnded /\ species_df = EmptyDataFrame) =>
              OnlyErrors(out, "species") /\ "species_filtered" \notin bound]_vars

\* A run has ended in which the movie read failed and was reported.
C4_Witness ==
    /\ RunEnded
    /\ SectionOut(out, "load_movie") # <<>>
    /\ movie_df = EmptyDataFrame
    /\ OnlyErrors(out, "movie")

\* C6: once a loader has been called, its cache entry never changes, the file
\* is never read again, and every later call returns the cached table, whatever
\* the file holds by then.
C6_Memoized ==
    [][/\ movie_cache # <<>> =>
              /\ movie_cache' = movie_cache
              /\ movie_reads' = movie_reads
              /\ pc = "load_movie" => movie_df' = movie_cache[1]
       /\ species_cache # <<>> =>
              /\ species_cache' = species_cache
              /\ species_reads' = species_reads
              /\ pc = "load_species" => species_df' = species_cache[1]]_vars

\* A later run has loaded the movie table it cached first although the file
\* holds another table by now.
C6_Witness ==
    /\ pc = "load_species"
    /\ movie_reads = 1
    /\ ~IsReadError(movie_file)
    /\ movie_file.cols = MovieCols
    /\ movie_df.cols = MovieCols
    /\ movie_df # movie_file
    /\ movie_cache = <<movie_df>>

\* C7: with all required species columns a run renders the filtered species
\* table, then the bar charts, then the regression chart, and reaches the end
\* of the script.
C7_SpeciesSectionRenders ==
    (RunEnded /\ ~Lacks(species_df, species_required_columns)) =>
        /\ pc = "done" /\ raised = ""
        /\ \E i, j \in DOMAIN out :
              /\ i < j
              /\ out[i].sec = "species" /\ out[i].kind = "dataframe"
              /\ out[j].sec = "species" /\ out[j].kind = "regression_chart"
              /\ \A k \in DOMAIN out : out[k].kind = "bar_chart" => (i < k /\ k < j)

\* The selected rows satisfy y = 2x for the selectboxes' first options
\* (x "feeding", y "satisfaction") and hold two distinct x.
PerfectlyLinear(rows) ==
    /\ \A i \in DOMAIN rows : rows[i].satisfaction = 2 * rows[i].feeding
    /\ \E i, j \in DOMAIN rows : rows[i].feeding # rows[j].feeding

\* C8: on a perfectly linear input the run produces regression_df with one
\* predicted value per filtered row, in the rows' order, equal to the row's y.
C8_RegressionRecoversLine ==
    (/\ RunEnded
     /\ ~Lacks(species_df, species_required_columns)
     /\ PerfectlyLinear(species_filtered.rows)) =>
        /\ "regression_df" \in bound
        /\ Len(regression_df) = Len(species_filtered.rows)
        /\ \A i \in DOMAIN regression_df :
              regression_df[i].predicted_satisfaction = species_filtered.rows[i].satisfaction

\* C9: the year range handed to the movie filter lies within the slider's
\* declared bounds 1986 and 2016.
C9_YearsWithinSlider ==
    "years" \in bound =>
        /\ SliderMin <= years[1]
        /\ years[1] <= years[2]
        /\ years[2] <= SliderMax

\* What the species section renders and where it ends, from the species table
\* and the species widget alone.
SpeciesOutcome(df, w) ==
    LET v == validate_columns(df, species_required_columns)
        sel == multiselect(Head_n(SpeciesOptions(df), DefaultSpeciesCount), w)
        kept == [cols |-> df.cols,
                 rows |-> SelectSeq(df.rows, LAMBDA r : r.species \in Range(sel))]
    IN  IF v.ret
        THEN [end |-> "crashed",
              filtered |-> kept,
              out |-> <<Element("species", "multiselect", "Species"),
                        Element("species", "dataframe", kept),
                        Element("species", "exception",
                                "NameError: name 'variables' is not defined")>>]
        ELSE [end |-> "done",
              filtered |-> EmptyDataFrame,
              out |-> Errors("species", v.msgs)
                      \o <<Element("species", "error", SpeciesElseMessage)>>]

\* C10: every run attempts the species section, whether the movie validation
\* passed or failed, and what the section renders, the rows it keeps and where
\* the run ends are determined by the species table and the species widget.
C10_SectionsIndependent ==
    RunEnded =>
        LET o == SpeciesOutcome(species_df, species_widget)
        IN  /\ SectionOut(out, "species") # <<>>
            /\ SectionOut(out, "species") = o.out
            /\ species_filtered = o.filtered
            /\ pc = o.end

\* The movie validation failed and the species section has rendered its rows.
C10_Witness ==
    /\ RunEnded
    /\ \E i \in DOMAIN out : out[i] = Element("movie", "error", MovieElseMessage)
    /\ \E i \in DOMAIN out :
          /\ out[i].sec = "species" /\ out[i].kind = "dataframe"
          /\ out[i].body.rows # <<>>

====
